---------------------------- MODULE Spec2Model ----------------------------
(***************************************************************************)
(* A model of the ETH/XMR atomic swap: the SwapFactory escrow contract     *)
(* (src/ethereum/contracts/SwapFactory.sol), the XMR provider's exit path  *)
(* (package bob, src/unnamed/part_000) and the ETH provider's recovery     *)
(* (src/protocol/alice/recovery.go).                                       *)
(***************************************************************************)
EXTENDS Integers, Sequences, FiniteSets, Bags, TLC

(***************************************************************************)
(* Bounds of the model.                                                    *)
(***************************************************************************)
\* block timestamps run from 0 to MaxTime
MaxTime == 3
\* largest _timeoutDuration passed to new_swap
MaxD == 1
\* number of swaps the factory creates in one behaviour
MaxSwaps == 1
\* largest value of the (scaled-down) uint256: checked arithmetic reverts above it
UintMax == 4
\* ether every account starts with
InitialBalance == 2

(***************************************************************************)
(* Addresses, secrets and commitments.                                     *)
(***************************************************************************)
ZeroAddress == "0x0"
Addresses == {"alice", "bob", "eve"}
\* msg.sender of new_swap, and its _claimer argument
Owners == {"alice"}
Claimers == {"alice", "bob"}

\* common.Reverse: the bytes of x in the opposite order
Reverse(x) == [i \in 1..Len(x) |-> x[Len(x) + 1 - i]]

\* the parties' DLEQ secrets (dleqProof.Secret()), little-endian byte strings
secretA == <<1, 2>>
secretB == <<3, 4>>

\* the scalars a caller may present to the contract: the DLEQ secrets in the
\* contract's byte order
Secrets == {Reverse(secretA), Reverse(secretB)}

\* keccak256 of the secp256k1 public key of the scalar s (PublicKey.Keccak256)
PubKeyHash(s) == [keccak256 |-> s]

\* bytes32(0), the value of an unset commitment
ZeroHash == [keccak256 |-> <<>>]

\* Secp256k1.mulVerify(scalar, qKeccak): the scalar's public key hashes to qKeccak
mulVerify(s, qKeccak) == PubKeyHash(s) = qKeccak

\* msg.value of new_swap
Values == {0, 1}

\* the ids a call may name: every id new_swap can return and one it never returns
SwapIDs == 0..MaxSwaps

VARIABLES
    now,        \* block.timestamp
    nextID,     \* SwapFactory.nextID
    swaps,      \* SwapFactory.swaps: id -> Swap
    logs,       \* the event log of the contract: a bag of events
    balance,    \* ether held by each address and by the contract
    bob,        \* the XMR provider's swapState (package bob)
    alice,      \* the ETH provider's swapState (package alice)
    xmr,        \* the monero side: the locked output and the wallets made for it
    infofile,   \* the checkpoint file on disk (the file at swapState.infofile)
    session,    \* the session that owns the file: its keys and its running Write*ToFile
    written     \* for each field of the file, the value of the last write that returned nil

cvars == <<now, nextID, swaps, logs, balance>>

fvars == <<infofile, session, written>>

pvars == <<bob, alice, xmr, fvars>>

svars == <<cvars, bob, alice, xmr>>

vars == <<now, nextID, swaps, logs, balance, bob, alice, xmr, infofile, session, written>>

Contract == "SwapFactory"

\* the zero-initialised Swap struct a mapping returns for an unused id
EmptySwap ==
    [owner |-> ZeroAddress, claimer |-> ZeroAddress,
     pubKeyClaim |-> ZeroHash, pubKeyRefund |-> ZeroHash,
     timeout_0 |-> 0, timeout_1 |-> 0,
     isReady |-> FALSE, completed |-> FALSE, value |-> 0]

\* an entry of the event log: New(swapID, claimKey, refundKey), Ready(swapID),
\* Claimed(swapID, s), Refunded(swapID, s)
Event(name, id, s, claimKey, refundKey) ==
    [event |-> name, swapID |-> id, s |-> s, claimKey |-> claimKey, refundKey |-> refundKey]

New(id, claimKey, refundKey) == Event("New", id, <<>>, claimKey, refundKey)
Ready(id) == Event("Ready", id, <<>>, ZeroHash, ZeroHash)
Claimed(id, s) == Event("Claimed", id, s, ZeroHash, ZeroHash)
Refunded(id, s) == Event("Refunded", id, s, ZeroHash, ZeroHash)

emit(e) == logs (+) SetToBag({e})

InitContract ==
    /\ now = 0
    /\ nextID = 0
    /\ swaps = [id \in SwapIDs |-> EmptySwap]
    /\ logs = EmptyBag
    /\ balance = [a \in Addresses \cup {Contract} |-> IF a = Contract THEN 0 ELSE InitialBalance]

(***************************************************************************)
(* The contract's operations.  Each Revert operator returns the reason of  *)
(* the first failing require of a call made at block.timestamp, or Ok; a   *)
(* reverted call changes nothing.                                          *)
(***************************************************************************)
Ok == "ok"

\* checked uint256 arithmetic of solidity ^0.8: a result above the type's range reverts
Overflows(x) == x > UintMax

new_swapRevert(sender, _timeoutDuration, value, timestamp) ==
    IF balance[sender] < value THEN "insufficient funds"
    ELSE IF Overflows(timestamp + _timeoutDuration) THEN "arithmetic overflow"
    ELSE IF Overflows(_timeoutDuration * 2) THEN "arithmetic overflow"
    ELSE IF Overflows(timestamp + (_timeoutDuration * 2)) THEN "arithmetic overflow"
    ELSE IF Overflows(nextID + 1) THEN "arithmetic overflow"
    ELSE Ok

\* new_swap that stores every swap under id 0
new_swapOverwrites(sender, _pubKeyClaim, _pubKeyRefund, _claimer, _timeoutDuration, value) ==
    IF new_swapRevert(sender, _timeoutDuration, value, now) = Ok
    THEN LET id == 0
             swap == [owner |-> sender, claimer |-> _claimer,
                      pubKeyClaim |-> _pubKeyClaim, pubKeyRefund |-> _pubKeyRefund,
                      timeout_0 |-> now + _timeoutDuration,
                      timeout_1 |-> now + (_timeoutDuration * 2),
                      isReady |-> FALSE, completed |-> FALSE, value |-> value]
         IN /\ logs' = emit(New(id, _pubKeyClaim, _pubKeyRefund))
            /\ nextID' = nextID + 1
            /\ swaps' = [swaps EXCEPT ![id] = swap]
            /\ balance' = [balance EXCEPT ![sender] = @ - value, ![Contract] = @ + value]
            /\ UNCHANGED now
    ELSE UNCHANGED cvars

new_swap(sender, _pubKeyClaim, _pubKeyRefund, _claimer, _timeoutDuration, value) ==
    IF new_swapRevert(sender, _timeoutDuration, value, now) = Ok
    THEN LET id == nextID
             swap == [owner |-> sender, claimer |-> _claimer,
                      pubKeyClaim |-> _pubKeyClaim, pubKeyRefund |-> _pubKeyRefund,
                      timeout_0 |-> now + _timeoutDuration,
                      timeout_1 |-> now + (_timeoutDuration * 2),
                      isReady |-> FALSE, completed |-> FALSE, value |-> value]
         IN /\ logs' = emit(New(id, _pubKeyClaim, _pubKeyRefund))
            /\ nextID' = nextID + 1
            /\ swaps' = [swaps EXCEPT ![id] = swap]
            /\ balance' = [balance EXCEPT ![sender] = @ - value, ![Contract] = @ + value]
            /\ UNCHANGED now
    ELSE UNCHANGED cvars

\* set_ready without its completed check
set_readyRevertNoCompleted(swap, sender) ==
    IF swap.owner # sender THEN "only the swap owner can call set_ready"
    ELSE IF swap.isReady THEN "swap was already set to ready"
    ELSE Ok

\* set_ready without its isReady check
set_readyRevertNoReady(swap, sender) ==
    IF swap.completed THEN "swap is already completed"
    ELSE IF swap.owner # sender THEN "only the swap owner can call set_ready"
    ELSE Ok

\* set_ready that any account may call
set_readyRevertAnyCaller(swap, sender) ==
    IF swap.completed THEN "swap is already completed"
    ELSE IF swap.isReady THEN "swap was already set to ready"
    ELSE Ok

set_readyRevert(swap, sender) ==
    IF swap.completed THEN "swap is already completed"
    ELSE IF swap.owner # sender THEN "only the swap owner can call set_ready"
    ELSE IF swap.isReady THEN "swap was already set to ready"
    ELSE Ok

set_ready(sender, id) ==
    IF set_readyRevert(swaps[id], sender) = Ok
    THEN /\ swaps' = [swaps EXCEPT ![id].isReady = TRUE]
         /\ logs' = emit(Ready(id))
         /\ UNCHANGED <<now, nextID, balance>>
    ELSE UNCHANGED cvars

is_ready(id) == swaps[id].isReady

\* verifySecret that accepts every secret
verifySecretNoCheck(_s, pubKey) == Ok

verifySecretRevert(_s, pubKey) ==
    IF mulVerify(_s, pubKey) THEN Ok
    ELSE "provided secret does not match the expected public key"

\* address.transfer(amount): reverts when the contract does not hold the amount
transferRevert(amount) ==
    IF balance[Contract] < amount THEN "transfer failed" ELSE Ok

\* claim still accepted at exactly timeout_1
claimWindowInclusiveT1(swap, timestamp) ==
    IF ~(timestamp >= swap.timeout_0 \/ swap.isReady) THEN "too early to claim!"
    ELSE IF ~(timestamp <= swap.timeout_1) THEN "too late to claim!"
    ELSE Ok

\* claim accepted only once the swap is Ready
claimWindowReadyOnly(swap, timestamp) ==
    IF ~swap.isReady THEN "too early to claim!"
    ELSE IF ~(timestamp < swap.timeout_1) THEN "too late to claim!"
    ELSE Ok

\* claim that ignores isReady before timeout_0
claimWindowIgnoresReady(swap, timestamp) ==
    IF ~(timestamp >= swap.timeout_0) THEN "too early to claim!"
    ELSE IF ~(timestamp < swap.timeout_1) THEN "too late to claim!"
    ELSE Ok

\* the two time requires of claim
claimWindow(swap, timestamp) ==
    IF ~(timestamp >= swap.timeout_0 \/ swap.isReady) THEN "too early to claim!"
    ELSE IF ~(timestamp < swap.timeout_1) THEN "too late to claim!"
    ELSE Ok

\* claim without its completed check
claimRevertNoCompleted(swap, sender, _s, timestamp) ==
    IF sender # swap.claimer THEN "only claimer can claim!"
    ELSE IF ~(timestamp >= swap.timeout_0 \/ swap.isReady) THEN "too early to claim!"
    ELSE IF ~(timestamp < swap.timeout_1) THEN "too late to claim!"
    ELSE IF ~mulVerify(_s, swap.pubKeyClaim)
         THEN "provided secret does not match the expected public key"
    ELSE IF balance[Contract] < swap.value THEN "transfer failed"
    ELSE Ok

claimRevert(swap, sender, _s, timestamp) ==
    IF swap.completed THEN "swap is already completed"
    ELSE IF sender # swap.claimer THEN "only claimer can claim!"
    ELSE IF claimWindow(swap, timestamp) # Ok THEN claimWindow(swap, timestamp)
    ELSE IF verifySecretRevert(_s, swap.pubKeyClaim) # Ok
         THEN verifySecretRevert(_s, swap.pubKeyClaim)
    ELSE transferRevert(swap.value)

\* claim that sends the ether to the swap's owner
claimPaysOwner(sender, id, _s) ==
    LET swap == swaps[id] IN
    IF claimRevert(swap, sender, _s, now) = Ok
    THEN /\ logs' = emit(Claimed(id, _s))
         /\ balance' = [balance EXCEPT ![Contract] = @ - swap.value,
                                       ![swap.owner] = @ + swap.value]
         /\ swaps' = [swaps EXCEPT ![id].completed = TRUE]
         /\ UNCHANGED <<now, nextID>>
    ELSE UNCHANGED cvars

claim(sender, id, _s) ==
    LET swap == swaps[id] IN
    IF claimRevert(swap, sender, _s, now) = Ok
    THEN /\ logs' = emit(Claimed(id, _s))
         /\ balance' = [balance EXCEPT ![Contract] = @ - swap.value,
                                       ![swap.claimer] = @ + swap.value]
         /\ swaps' = [swaps EXCEPT ![id].completed = TRUE]
         /\ UNCHANGED <<now, nextID>>
    ELSE UNCHANGED cvars

\* refund rejected at exactly timeout_1
refundWindowStrictT1(swap, timestamp) ==
    IF ~(timestamp > swap.timeout_1 \/ (timestamp < swap.timeout_0 /\ ~swap.isReady))
    THEN "it's the counterparty's turn, unable to refund, try again later"
    ELSE Ok

\* refund accepted only from timeout_1 on
refundWindowOnlyAfterT1(swap, timestamp) ==
    IF ~(timestamp >= swap.timeout_1)
    THEN "it's the counterparty's turn, unable to refund, try again later"
    ELSE Ok

\* refund rejected once the swap is Ready, also after timeout_1
refundWindowNeverWhenReady(swap, timestamp) ==
    IF ~((timestamp >= swap.timeout_1 \/ timestamp < swap.timeout_0) /\ ~swap.isReady)
    THEN "it's the counterparty's turn, unable to refund, try again later"
    ELSE Ok

\* the time require of refund
refundWindow(swap, timestamp) ==
    IF ~(timestamp >= swap.timeout_1 \/ (timestamp < swap.timeout_0 /\ ~swap.isReady))
    THEN "it's the counterparty's turn, unable to refund, try again later"
    ELSE Ok

\* refund that tests the caller before the completed flag
refundRevertOwnerFirst(swap, sender, _s, timestamp) ==
    IF sender # swap.owner THEN "refund must be called by the swap owner"
    ELSE IF swap.completed THEN "swap is already completed"
    ELSE IF refundWindow(swap, timestamp) # Ok THEN refundWindow(swap, timestamp)
    ELSE IF verifySecretRevert(_s, swap.pubKeyRefund) # Ok
         THEN verifySecretRevert(_s, swap.pubKeyRefund)
    ELSE transferRevert(swap.value)

refundRevert(swap, sender, _s, timestamp) ==
    IF swap.completed THEN "swap is already completed"
    ELSE IF sender # swap.owner THEN "refund must be called by the swap owner"
    ELSE IF refundWindow(swap, timestamp) # Ok THEN refundWindow(swap, timestamp)
    ELSE IF verifySecretRevert(_s, swap.pubKeyRefund) # Ok
         THEN verifySecretRevert(_s, swap.pubKeyRefund)
    ELSE transferRevert(swap.value)

\* refund that pays out without setting completed
refundLeavesOpen(sender, id, _s) ==
    LET swap == swaps[id] IN
    IF refundRevert(swap, sender, _s, now) = Ok
    THEN /\ logs' = emit(Refunded(id, _s))
         /\ balance' = [balance EXCEPT ![Contract] = @ - swap.value,
                                       ![swap.owner] = @ + swap.value]
         /\ UNCHANGED <<now, nextID, swaps>>
    ELSE UNCHANGED cvars

refund(sender, id, _s) ==
    LET swap == swaps[id] IN
    IF refundRevert(swap, sender, _s, now) = Ok
    THEN /\ logs' = emit(Refunded(id, _s))
         /\ balance' = [balance EXCEPT ![Contract] = @ - swap.value,
                                       ![swap.owner] = @ + swap.value]
         /\ swaps' = [swaps EXCEPT ![id].completed = TRUE]
         /\ UNCHANGED <<now, nextID>>
    ELSE UNCHANGED cvars

(***************************************************************************)
(* The two roles.  bob is the XMR provider (src/unnamed/part_000), alice   *)
(* the ETH provider (src/protocol/alice/recovery.go).                      *)
(***************************************************************************)
\* a nil *mcrypto.PrivateSpendKey
NoSecret == <<>>

\* [32]byte{}: the secret GetSecretFromLog refuses
ZeroSecret == <<0, 0>>

\* the wei bob expects the swap to hold (s.info.ReceivedAmount())
ExpectedValue == 1

\* mcrypto.SumPrivateSpendKeys: the componentwise sum of two scalars
SumPrivateSpendKeys(a, b) == [i \in 1..Len(a) |-> a[i] + b[i]]

\* the spend key of the address (S_a + S_b) that lockFunds pays to
SharedSpendKey == SumPrivateSpendKeys(secretA, secretB)

\* types.Status.IsOngoing
IsOngoing(status) == status \notin {"CompletedSuccess", "CompletedRefund", "CompletedAbort"}

revertSwapCompleted == "swap is already completed"
errPastClaimTime == "past t1, can no longer claim"
errUnexpectedMessageType == "unexpected message type"

\* swapfactory.CheckIfLogIDMatches that accepts the log of any swap
CheckIfLogIDMatchesAny(log, event, id) == TRUE

\* swapfactory.CheckIfLogIDMatches
CheckIfLogIDMatches(log, event, id) == log.swapID = id

\* GetSecretFromLog that returns the scalar in the contract's byte order
GetSecretFromLogAsLogged(log, event) ==
    IF log.s = ZeroSecret THEN NoSecret ELSE log.s

\* swapfactory.GetSecretFromLog: the log's secret in the DLEQ byte order, or nil
GetSecretFromLog(log, event) ==
    IF log.s = ZeroSecret THEN NoSecret ELSE Reverse(log.s)

\* ethClient.FilterLogs with the event's topic
FilterLogs(event) == {l \in BagToSet(logs) : l.event = event}

\* bob's swapState.getSecret
getSecret == Reverse(secretB)

errContextCanceled == "context canceled"

errNoRefundLogsFound == "no refund logs found"

\* bob's filterForRefund: s_a from the Refunded log of the swap, or nil and an error;
\* FilterLogs(s.ctx, ...) fails once the context is cancelled
filterForRefund ==
    IF bob.ctx = "cancelled" THEN [sk |-> NoSecret, err |-> errContextCanceled] ELSE
    LET found == {l \in FilterLogs("Refunded") :
                    CheckIfLogIDMatches(l, "Refunded", bob.contractSwapID)}
    IN IF found = {} THEN [sk |-> NoSecret, err |-> errNoRefundLogsFound]
       ELSE LET sa == GetSecretFromLog(CHOOSE l \in found : TRUE, "Refunded") IN
            IF sa = NoSecret
            THEN [sk |-> NoSecret, err |-> "failed to get secret from log"]
            ELSE [sk |-> sa, err |-> "nil"]

errNoClaimLogsFound == "no claim logs found"

\* filterForClaim that filters with the topic of Refunded
filterForClaimRefundedTopic ==
    LET found == {l \in FilterLogs("Refunded") :
                    CheckIfLogIDMatches(l, "Refunded", alice.contractSwapID)}
    IN IF found = {} THEN [sk |-> NoSecret, err |-> errNoClaimLogsFound]
       ELSE LET sa == GetSecretFromLog(CHOOSE l \in found : TRUE, "Refunded") IN
            IF sa = NoSecret
            THEN [sk |-> NoSecret, err |-> "failed to get secret from log"]
            ELSE [sk |-> sa, err |-> "nil"]

\* alice's filterForClaim: s_b from the Claimed log of the swap, or nil and an error
filterForClaim ==
    LET found == {l \in FilterLogs("Claimed") :
                    CheckIfLogIDMatches(l, "Claimed", alice.contractSwapID)}
    IN IF found = {} THEN [sk |-> NoSecret, err |-> errNoClaimLogsFound]
       ELSE LET sa == GetSecretFromLog(CHOOSE l \in found : TRUE, "Claimed") IN
            IF sa = NoSecret
            THEN [sk |-> NoSecret, err |-> "failed to get secret from log"]
            ELSE [sk |-> sa, err |-> "nil"]

\* a RecoveryResult with its error; NoResult before ClaimOrRefund has returned
RecoveryResult(refunded, claimed, err) ==
    [Refunded |-> refunded, Claimed |-> claimed, err |-> err]

NoResult == RecoveryResult(FALSE, FALSE, "none")

\* ClaimOrRefund that never looks at the key filterForClaim returned
claimOrRefundBranchRefundOnly(r) ==
    IF r.err # errNoClaimLogsFound /\ r.err # "nil" THEN "error"
    ELSE "tryRefund"

\* the branch ClaimOrRefund takes on the result of filterForClaim
claimOrRefundBranch(r) ==
    IF r.err # errNoClaimLogsFound /\ r.err # "nil" THEN "error"
    ELSE IF r.sk # NoSecret THEN "claimMonero"
    ELSE "tryRefund"

\* common.WaitForReceipt: the logs of the transaction that created swap id
WaitForReceipt(id) ==
    LET created == {l \in FilterLogs("New") : l.swapID = id} IN
    IF created = {} THEN <<>> ELSE <<CHOOSE l \in created : TRUE>>

errCannotFindNewLog == "cannot find New log"
errUnexpectedSwapID == "unexpected swap ID was emitted by New log"

\* checkContract without the check of the swap's value
checkContractAnyValue(receipt, id) ==
    IF bob.ctx = "cancelled" THEN "failed to get receipt for New transaction"
    ELSE IF Len(receipt) = 0 THEN errCannotFindNewLog
    ELSE LET event == receipt[1] IN
         IF event.event # "New" THEN "failed to parse New log"
         ELSE IF event.swapID # id THEN errUnexpectedSwapID
         ELSE IF event.claimKey # PubKeyHash(Reverse(secretB))
              THEN "contract claim key is not expected"
         ELSE IF event.refundKey # PubKeyHash(Reverse(secretA))
              THEN "contract refund key is not expected"
         ELSE "nil"

\* bob's checkContract, called with the receipt of the New transaction and with
\* s.contractSwapID, the id alice announced: the first log of the receipt must be
\* the New event of that id with bob's claim key and alice's refund key, and the
\* swap must hold the expected value
checkContract(receipt, id) ==
    IF bob.ctx = "cancelled" THEN "failed to get receipt for New transaction"
    ELSE IF Len(receipt) = 0 THEN errCannotFindNewLog
    ELSE LET event == receipt[1] IN
         IF event.event # "New" THEN "failed to parse New log"
         ELSE IF event.swapID # id THEN errUnexpectedSwapID
         ELSE IF event.claimKey # PubKeyHash(Reverse(secretB))
              THEN "contract claim key is not expected"
         ELSE IF event.refundKey # PubKeyHash(Reverse(secretA))
              THEN "contract refund key is not expected"
         ELSE IF swaps[id].value < ExpectedValue
              THEN "contract does not have expected balance"
         ELSE "nil"

\* the wallet RPC of lockFunds that fails, if any
RPCFailures == {"Transfer", "Refresh", "none"}

\* lockFunds that goes on after a failed Transfer
lockFundsIgnoresTransferError(failure) ==
    CASE failure = "Transfer" -> [locked |-> FALSE, err |-> "nil"]
      [] failure = "Refresh" -> [locked |-> TRUE, err |-> failure]
      [] OTHER -> [locked |-> TRUE, err |-> "nil"]

\* bob's lockFunds: an error of Transfer leaves the XMR unlocked, an error of a
\* later call is returned with the XMR already sent to the shared address
lockFunds(failure) ==
    CASE failure = "Transfer" -> [locked |-> FALSE, err |-> failure]
      [] failure = "Refresh" -> [locked |-> TRUE, err |-> failure]
      [] OTHER -> [locked |-> TRUE, err |-> "nil"]

\* the error of claimFunds, or Ok: BalanceAt(s.ctx, ...) fails once the context is
\* cancelled, before the claim transaction is sent; else the transaction is mined
claimFunds ==
    IF bob.ctx = "cancelled" THEN errContextCanceled
    ELSE claimRevert(swaps[bob.contractSwapID], "bob", getSecret, now)

\* swapState.clearNextExpectedMessage
clearNextExpectedMessage(s, status) ==
    [s EXCEPT !.nextExpectedMessage = "nil", !.status = status]

\* the deferred function of exit (bob.swapState = nil, CompleteOngoingSwap, and
\* putOffer unless the swap succeeded), and exit's return; cleanups tells whether
\* the deferred function has run never, once or repeatedly
exitReturn(s, err) ==
    [s EXCEPT !.pc = "idle", !.swapState = "nil", !.err = err, !.ctx = "cancelled",
              !.cleanups = IF @ = "none" THEN "once" ELSE "repeated"]

\* exit that treats the XMR as locked while NotifyETHLocked is expected
exitCaseReclaimAtETHLocked(nextExpectedMessage) ==
    CASE nextExpectedMessage = "SendKeysMessage" -> "abort"
      [] nextExpectedMessage = "NotifyETHLocked" -> "reclaim"
      [] nextExpectedMessage = "NotifyReady" -> "reclaim"
      [] OTHER -> "default"

\* the branch of exit's switch on nextExpectedMessage
exitCase(nextExpectedMessage) ==
    CASE nextExpectedMessage = "SendKeysMessage" -> "abort"
      [] nextExpectedMessage = "NotifyETHLocked" -> "abort"
      [] nextExpectedMessage = "NotifyReady" -> "reclaim"
      [] OTHER -> "default"

(***************************************************************************)
(* The checkpoint file (src/protocol/write.go).  The file holds the JSON   *)
(* document of one InfoFileContents: a sequence of members, one per field. *)
(***************************************************************************)
Nil == "nil"

\* the fields of InfoFileContents, in the order of the struct
FieldNames ==
    <<"ContractAddress", "ContractSwapID", "ContractSwap", "PrivateKeyInfo",
      "SharedSwapPrivateKey">>

\* a nil *mcrypto.PrivateKeyPair and a nil *mcrypto.PrivateKeyInfo
NilKeys == [sk |-> <<>>, vk |-> <<>>]
NilInfo == [PrivateSpendKey |-> <<>>, PrivateViewKey |-> <<>>]

\* &InfoFileContents{}
ZeroContents ==
    [ContractAddress |-> "", ContractSwapID |-> 0, ContractSwap |-> EmptySwap,
     PrivateKeyInfo |-> NilInfo, SharedSwapPrivateKey |-> NilInfo]

\* json.MarshalIndent(contents): one member, name and value, per field
MarshalIndent(contents) ==
    [i \in 1..Len(FieldNames) |-> [name |-> FieldNames[i], value |-> contents[FieldNames[i]]]]

\* json.Unmarshal(bz, &contents): a document cut short, the empty one included,
\* is an error; a whole document gives back the value of every member
Unmarshal(bz) ==
    IF Len(bz) # Len(FieldNames)
    THEN [err |-> "unexpected end of JSON input", contents |-> ZeroContents]
    ELSE [err |-> Nil,
          contents |-> [f \in DOMAIN ZeroContents |->
                            bz[CHOOSE i \in 1..Len(bz) : bz[i].name = f].value]]

\* setupFile that starts every write from an empty InfoFileContents
setupFileForgets(file) ==
    IF ~file.exists
    THEN [err |-> Nil, contents |-> ZeroContents, file |-> [exists |-> TRUE, bytes |-> <<>>]]
    ELSE LET u == Unmarshal(file.bytes) IN
         IF u.err # Nil THEN [err |-> u.err, contents |-> ZeroContents, file |-> file]
         ELSE [err |-> Nil, contents |-> ZeroContents, file |-> [file EXCEPT !.bytes = <<>>]]

\* setupFile: os.Create of a missing file; else ReadFile, json.Unmarshal and
\* Truncate(0).  It returns the loaded contents and leaves the file empty.
setupFile(file) ==
    IF ~file.exists
    THEN [err |-> Nil, contents |-> ZeroContents, file |-> [exists |-> TRUE, bytes |-> <<>>]]
    ELSE LET u == Unmarshal(file.bytes) IN
         IF u.err # Nil THEN [err |-> u.err, contents |-> ZeroContents, file |-> file]
         ELSE [err |-> Nil, contents |-> u.contents, file |-> [file EXCEPT !.bytes = <<>>]]

\* PrivateKeyPair.Info: the key pair as it is stored in the file
Info(keys) == [PrivateSpendKey |-> keys.sk, PrivateViewKey |-> keys.vk]

\* the assignments of a writer: the fields of set replace those of contents
Assign(contents, set) ==
    [f \in DOMAIN contents |-> IF f \in DOMAIN set THEN set[f] ELSE contents[f]]

\* the fields each writer assigns
WriteContractAddressToFile(addr) == [ContractAddress |-> addr]
WriteContractSwapToFile(swapID, swap) == [ContractSwapID |-> swapID, ContractSwap |-> swap]
WriteKeysToFile(keys) == [PrivateKeyInfo |-> Info(keys)]
WriteSharedSwapKeyPairToFile(keys) == [SharedSwapPrivateKey |-> Info(keys)]

\* the arguments the writers are called with
ContractAddrs == {"0xF1", "0xF2"}
ContractSwaps ==
    {[EmptySwap EXCEPT !.owner = "alice", !.claimer = "bob", !.value = v] : v \in {1, 2}}
KeyPairs == {[sk |-> secretB, vk |-> <<5, 6>>], [sk |-> secretA, vk |-> <<7, 8>>]}
SharedKeyPairs == {[sk |-> SharedSpendKey, vk |-> <<12, 14>>]}

\* the key pair generateKeys returns
GeneratedKeys == [sk |-> secretB, vk |-> <<5, 6>>]

InitFile ==
    /\ infofile = [exists |-> FALSE, bytes |-> <<>>]
    /\ session = [privkeys |-> NilKeys, pc |-> "idle", contents |-> ZeroContents,
                  set |-> WriteContractAddressToFile(""),
                  ret |-> [op |-> "none", err |-> Nil]]
    /\ written = ZeroContents

InitProtocol ==
    /\ bob = [nextExpectedMessage |-> "SendKeysMessage", status |-> "ExpectingKeys",
              swapState |-> "set", pc |-> "idle", contractSwapID |-> 0,
              t0 |-> 0, t1 |-> 0, untilT0 |-> 0, untilT1 |-> 0, err |-> "nil",
              cleanups |-> "none", ctx |-> "live"]
    /\ alice = [stage |-> "init", pc |-> "idle", contractSwapID |-> 0,
                t0 |-> 0, t1 |-> 0, result |-> NoResult]
    /\ xmr = [locked |-> FALSE, wallets |-> {}]

(***************************************************************************)
(* Spec: the contract called by any account, with any argument, at any     *)
(* block timestamp.                                                        *)
(***************************************************************************)
Init == InitContract /\ InitProtocol /\ InitFile

\* a new block with a later timestamp
Tick ==
    /\ now < MaxTime
    /\ now' = now + 1
    /\ UNCHANGED <<nextID, swaps, logs, balance, pvars>>

NewSwap ==
    /\ nextID < MaxSwaps
    /\ \E sender \in Owners, _claimer \in Claimers, D \in 0..MaxD, value \in Values :
        new_swap(sender, PubKeyHash(Reverse(secretB)), PubKeyHash(Reverse(secretA)),
                 _claimer, D, value)
    /\ UNCHANGED pvars

SetReady ==
    /\ \E sender \in Addresses, id \in SwapIDs : set_ready(sender, id)
    /\ UNCHANGED pvars

Claim ==
    /\ \E sender \in Addresses, id \in SwapIDs, s \in Secrets : claim(sender, id, s)
    /\ UNCHANGED pvars

Refund ==
    /\ \E sender \in Addresses, id \in SwapIDs, s \in Secrets : refund(sender, id, s)
    /\ UNCHANGED pvars

Next == Tick \/ NewSwap \/ SetReady \/ Claim \/ Refund

Spec == Init /\ [][Next]_vars

(***************************************************************************)
(* SpecMulti: the contract holding several swaps at once, every id of      *)
(* SwapIDs in use (TestSwap_MultipleSwaps).                                *)
(***************************************************************************)
NewSwapMulti ==
    /\ nextID <= MaxSwaps
    /\ \E D \in 1..MaxD :
        new_swap("alice", PubKeyHash(Reverse(secretB)), PubKeyHash(Reverse(secretA)),
                 "bob", D, 1)
    /\ UNCHANGED pvars

\* the calls of the owner and of the claimer
SetReadyMulti ==
    /\ \E sender \in Claimers, id \in SwapIDs : set_ready(sender, id)
    /\ UNCHANGED pvars

ClaimMulti ==
    /\ \E sender \in Claimers, id \in SwapIDs : claim(sender, id, Reverse(secretB))
    /\ UNCHANGED pvars

RefundMulti ==
    /\ \E sender \in Claimers, id \in SwapIDs : refund(sender, id, Reverse(secretA))
    /\ UNCHANGED pvars

\* alice.NewRecoveryState: a recovery session of alice for any swap of the contract
AliceNewRecoveryState ==
    /\ \E contractSwapID \in SwapIDs :
        alice' = [alice EXCEPT !.contractSwapID = contractSwapID]
    /\ UNCHANGED <<cvars, bob, xmr, fvars>>

\* RecoverFromBobSecretAndContract: a recovery session of bob for any swap
BobNewRecoveryState ==
    /\ \E swapID \in SwapIDs :
        bob' = [bob EXCEPT !.contractSwapID = swapID]
    /\ UNCHANGED <<cvars, alice, xmr, fvars>>

NextMulti ==
    \/ Tick \/ NewSwapMulti \/ SetReadyMulti \/ ClaimMulti \/ RefundMulti
    \/ AliceNewRecoveryState \/ BobNewRecoveryState

SpecMulti == Init /\ [][NextMulti]_vars

(***************************************************************************)
(* SpecSwap: one swap between alice and bob.  The message handlers of bob  *)
(* and the main flow of alice drive the stages; exit and ClaimOrRefund may *)
(* be entered at every stage, and blocks arrive between any two steps.     *)
(***************************************************************************)
\* bob handles alice's SendKeysMessage and answers with his own keys
BobHandleSendKeys ==
    /\ bob.pc = "idle" /\ bob.swapState = "set"
    /\ bob.nextExpectedMessage = "SendKeysMessage"
    /\ alice.stage = "init"
    /\ bob' = [bob EXCEPT !.nextExpectedMessage = "NotifyETHLocked"]
    /\ alice' = [alice EXCEPT !.stage = "keysExchanged"]
    /\ UNCHANGED <<cvars, xmr, fvars>>

\* bob handles NotifyETHLocked: setContract, checkContract, lockFunds, setTimeouts
BobHandleNotifyETHLocked ==
    /\ bob.pc = "idle" /\ bob.swapState = "set"
    /\ bob.nextExpectedMessage = "NotifyETHLocked"
    /\ alice.stage \in {"deployed", "ready"}
    /\ LET id == alice.contractSwapID IN
       IF checkContract(WaitForReceipt(id), id) # "nil"
       THEN /\ bob' = [bob EXCEPT !.contractSwapID = id]
            /\ UNCHANGED xmr
       ELSE \E failure \in RPCFailures :
            LET r == lockFunds(failure) IN
            /\ xmr' = [xmr EXCEPT !.locked = r.locked]
            /\ bob' = IF r.err = "nil"
                      THEN [bob EXCEPT !.contractSwapID = id,
                                       !.t0 = swaps[id].timeout_0,
                                       !.t1 = swaps[id].timeout_1,
                                       !.nextExpectedMessage = "NotifyReady"]
                      ELSE [bob EXCEPT !.contractSwapID = id]
    /\ UNCHANGED <<cvars, alice, fvars>>

\* bob handles NotifyReady: claimFunds
BobHandleNotifyReady ==
    /\ bob.pc = "idle" /\ bob.swapState = "set"
    /\ bob.nextExpectedMessage = "NotifyReady"
    /\ alice.stage = "ready"
    /\ LET r == claimFunds IN
       /\ IF r = errContextCanceled
          THEN UNCHANGED cvars
          ELSE claim("bob", bob.contractSwapID, getSecret)
       /\ bob' = IF r = Ok THEN clearNextExpectedMessage(bob, "CompletedSuccess") ELSE bob
    /\ UNCHANGED <<alice, xmr, fvars>>

\* the context of bob's instance, the parent of s.ctx, is cancelled
BobCancel ==
    /\ bob.swapState = "set" /\ bob.ctx = "live"
    /\ bob' = [bob EXCEPT !.ctx = "cancelled"]
    /\ UNCHANGED <<cvars, alice, xmr, fvars>>

\* exit, up to the call of tryReclaimMonero
BobExit ==
    /\ bob.pc = "idle"
    /\ bob' = IF bob.status \in {"CompletedSuccess", "CompletedRefund"}
              THEN exitReturn(bob, "nil")
              ELSE CASE exitCase(bob.nextExpectedMessage) = "abort" ->
                            exitReturn(clearNextExpectedMessage(bob, "CompletedAbort"), "nil")
                     [] exitCase(bob.nextExpectedMessage) = "reclaim" ->
                            [bob EXCEPT !.pc = "tryReclaimMonero"]
                     [] OTHER ->
                            exitReturn(clearNextExpectedMessage(bob, "CompletedAbort"),
                                       errUnexpectedMessageType)
    /\ UNCHANGED <<cvars, alice, xmr, fvars>>

\* tryReclaimMonero: filterForRefund, then reclaimMonero, whose wallet calls may fail
BobTryReclaimMonero ==
    /\ bob.pc = "tryReclaimMonero"
    /\ LET skA == filterForRefund.sk IN
       IF skA = NoSecret
       THEN /\ bob' = [bob EXCEPT !.pc = "tryClaim"]
            /\ UNCHANGED xmr
       ELSE \E created \in BOOLEAN :
            IF created
            THEN /\ xmr' = [xmr EXCEPT !.wallets = @ \cup
                        {[owner |-> "bob", key |-> SumPrivateSpendKeys(skA, secretB)]}]
                 /\ bob' = exitReturn(clearNextExpectedMessage(bob, "CompletedRefund"), "nil")
            ELSE /\ bob' = [bob EXCEPT !.pc = "tryClaim"]
                 /\ UNCHANGED xmr
    /\ UNCHANGED <<cvars, alice, fvars>>

\* tryClaim: time.Until(t0), time.Until(t1) and the swap's isReady, read on entry
BobTryClaim ==
    /\ bob.pc = "tryClaim"
    /\ LET untilT0 == bob.t0 - now
           untilT1 == bob.t1 - now
           info == swaps[bob.contractSwapID] IN
       bob' = [bob EXCEPT !.untilT0 = untilT0, !.untilT1 = untilT1,
                          !.pc = IF untilT0 > 0 /\ ~info.isReady
                                 THEN "waitT0" ELSE "checkT1"]
    /\ UNCHANGED <<cvars, alice, xmr, fvars>>

\* <-time.After(untilT0 + time.Second): the timer fires one second after t0 or later
BobWaitT0 ==
    /\ bob.pc = "waitT0"
    /\ now >= bob.t0 + 1
    /\ bob' = [bob EXCEPT !.pc = "checkT1"]
    /\ UNCHANGED <<cvars, alice, xmr, fvars>>

\* tryClaim's test of the untilT1 it read on entry
BobCheckT1 ==
    /\ bob.pc = "checkT1"
    /\ bob' = IF bob.untilT1 < 0
              THEN exitReturn(bob, errPastClaimTime)
              ELSE [bob EXCEPT !.pc = "claimFunds"]
    /\ UNCHANGED <<cvars, alice, xmr, fvars>>

\* claimFunds: the claim transaction is mined, and exit returns
BobClaimFunds ==
    /\ bob.pc = "claimFunds"
    /\ LET r == claimFunds IN
       /\ IF r = errContextCanceled
          THEN UNCHANGED cvars
          ELSE claim("bob", bob.contractSwapID, getSecret)
       /\ bob' = IF r = Ok
                 THEN exitReturn(clearNextExpectedMessage(bob, "CompletedSuccess"), "nil")
                 ELSE IF r = revertSwapCompleted /\ ~IsOngoing(bob.status)
                 THEN exitReturn(bob, "nil")
                 ELSE exitReturn(bob, r)
    /\ UNCHANGED <<alice, xmr, fvars>>

\* alice gives up before she deploys the swap
AliceAbort ==
    /\ alice.stage \in {"init", "keysExchanged"}
    /\ alice' = [alice EXCEPT !.stage = "aborted"]
    /\ UNCHANGED <<cvars, bob, xmr, fvars>>

\* alice locks her ether: new_swap with bob as the claimer
AliceDeploy ==
    /\ alice.stage = "keysExchanged"
    /\ nextID < MaxSwaps
    /\ \E D \in 0..MaxD, value \in Values :
        /\ new_swapRevert("alice", D, value, now) = Ok
        /\ new_swap("alice", PubKeyHash(Reverse(secretB)), PubKeyHash(Reverse(secretA)),
                    "bob", D, value)
        /\ alice' = [alice EXCEPT !.stage = "deployed", !.contractSwapID = nextID,
                                  !.t0 = now + D, !.t1 = now + (D * 2)]
    /\ UNCHANGED <<bob, xmr, fvars>>

\* alice has seen the XMR locked and bob's NotifyXMRLock: set_ready
AliceSetReady ==
    /\ alice.stage = "deployed" /\ alice.pc = "idle"
    /\ bob.nextExpectedMessage = "NotifyReady"
    /\ xmr.locked
    /\ LET id == alice.contractSwapID IN
       /\ set_readyRevert(swaps[id], "alice") = Ok
       /\ set_ready("alice", id)
    /\ alice' = [alice EXCEPT !.stage = "ready"]
    /\ UNCHANGED <<bob, xmr, fvars>>

\* ClaimOrRefund, up to the call of tryRefund: claimMonero's wallet call may fail
AliceClaimOrRefund ==
    /\ alice.stage \in {"deployed", "ready"} /\ alice.pc = "idle"
    /\ LET r == filterForClaim
           branch == claimOrRefundBranch(r) IN
       CASE branch = "error" ->
                /\ alice' = [alice EXCEPT !.result = RecoveryResult(FALSE, FALSE, r.err)]
                /\ UNCHANGED xmr
         [] branch = "claimMonero" ->
                \E created \in BOOLEAN :
                IF created
                THEN /\ xmr' = [xmr EXCEPT !.wallets = @ \cup
                            {[owner |-> "alice", key |-> SumPrivateSpendKeys(secretA, r.sk)]}]
                     /\ alice' = [alice EXCEPT !.result = RecoveryResult(FALSE, TRUE, "nil")]
                ELSE /\ alice' = [alice EXCEPT
                            !.result = RecoveryResult(FALSE, FALSE, "failed to create wallet")]
                     /\ UNCHANGED xmr
         [] OTHER ->
                /\ alice' = [alice EXCEPT !.pc = "tryRefund"]
                /\ UNCHANGED xmr
    /\ UNCHANGED <<cvars, bob, fvars>>

\* tryRefund: refund at once before t0 when the swap is not Ready, else wait for t1
AliceTryRefund ==
    /\ alice.pc = "tryRefund"
    /\ alice' = [alice EXCEPT !.pc = IF now < alice.t0 /\ ~is_ready(alice.contractSwapID)
                                     THEN "refund" ELSE "waitT1"]
    /\ UNCHANGED <<cvars, bob, xmr, fvars>>

AliceWaitT1 ==
    /\ alice.pc = "waitT1"
    /\ now >= alice.t1
    /\ alice' = [alice EXCEPT !.pc = "refund"]
    /\ UNCHANGED <<cvars, bob, xmr, fvars>>

\* the refund transaction is mined, and ClaimOrRefund returns
AliceRefund ==
    /\ alice.pc = "refund"
    /\ LET id == alice.contractSwapID
           r == refundRevert(swaps[id], "alice", Reverse(secretA), now) IN
       /\ refund("alice", id, Reverse(secretA))
       /\ alice' = [alice EXCEPT !.pc = "idle",
                                 !.result = IF r = Ok
                                            THEN RecoveryResult(TRUE, FALSE, "nil")
                                            ELSE RecoveryResult(FALSE, FALSE, r)]
    /\ UNCHANGED <<bob, xmr, fvars>>

NextSwap ==
    \/ Tick
    \/ BobHandleSendKeys \/ BobHandleNotifyETHLocked \/ BobHandleNotifyReady
    \/ BobCancel \/ BobExit \/ BobTryReclaimMonero \/ BobTryClaim \/ BobWaitT0 \/ BobCheckT1
    \/ BobClaimFunds
    \/ AliceAbort \/ AliceDeploy \/ AliceSetReady
    \/ AliceClaimOrRefund \/ AliceTryRefund \/ AliceWaitT1 \/ AliceRefund

SpecSwap == Init /\ [][NextSwap]_vars

(***************************************************************************)
(* SpecFile: one session and its checkpoint file.  A Write*ToFile call is  *)
(* two steps, setupFile and file.Write; the write may stop short, and the  *)
(* process may die between the two steps.                                  *)
(***************************************************************************)
\* a Write*ToFile call up to its file.Write: setupFile, the writer's assignments
\* and json.MarshalIndent; an error of setupFile is returned at once
BeginWrite(s, op, set) ==
    LET r == setupFile(infofile) IN
    /\ infofile' = r.file
    /\ session' = IF r.err # Nil
                  THEN [s EXCEPT !.ret = [op |-> op, err |-> r.err]]
                  ELSE [s EXCEPT !.pc = "write", !.set = set,
                                 !.contents = Assign(r.contents, set),
                                 !.ret = [op |-> op, err |-> "pending"]]
    /\ UNCHANGED <<written, svars>>

CallWriteContractAddressToFile ==
    /\ session.pc = "idle"
    /\ \E addr \in ContractAddrs :
        BeginWrite(session, "WriteContractAddressToFile", WriteContractAddressToFile(addr))

CallWriteContractSwapToFile ==
    /\ session.pc = "idle"
    /\ \E swap \in ContractSwaps :
        BeginWrite(session, "WriteContractSwapToFile", WriteContractSwapToFile(swap.value, swap))

CallWriteKeysToFile ==
    /\ session.pc = "idle"
    /\ \E keys \in KeyPairs :
        BeginWrite(session, "WriteKeysToFile", WriteKeysToFile(keys))

CallWriteSharedSwapKeyPairToFile ==
    /\ session.pc = "idle"
    /\ \E keys \in SharedKeyPairs :
        BeginWrite(session, "WriteSharedSwapKeyPairToFile", WriteSharedSwapKeyPairToFile(keys))

\* SendKeysMessage: generateAndSetKeys returns nil when s.privkeys is set; else
\* it sets the keys and returns what WriteKeysToFile returns
SendKeysMessage ==
    /\ session.pc = "idle"
    /\ IF session.privkeys # NilKeys
       THEN /\ session' = [session EXCEPT !.ret = [op |-> "SendKeysMessage", err |-> Nil]]
            /\ UNCHANGED <<infofile, written, svars>>
       ELSE BeginWrite([session EXCEPT !.privkeys = GeneratedKeys], "SendKeysMessage",
                       WriteKeysToFile(GeneratedKeys))

\* file.Write(bz): the whole document and nil, or a part of it and an error
FileWrite ==
    /\ session.pc = "write"
    /\ LET bz == MarshalIndent(session.contents) IN
       \E n \in 0..Len(bz) :
        /\ infofile' = [infofile EXCEPT !.bytes = SubSeq(bz, 1, n)]
        /\ session' = [session EXCEPT !.pc = "idle",
                          !.ret.err = IF n = Len(bz) THEN Nil ELSE "short write"]
        /\ written' = IF n = Len(bz) THEN Assign(written, session.set) ELSE written
    /\ UNCHANGED svars

\* the process dies inside a Write*ToFile call, after setupFile and before
\* file.Write; a new process starts with the file as it is
Crash ==
    /\ session.pc = "write"
    /\ session' = [session EXCEPT !.privkeys = NilKeys, !.pc = "idle",
                                  !.ret = [op |-> "none", err |-> Nil]]
    /\ UNCHANGED <<infofile, written, svars>>

NextFile ==
    \/ CallWriteContractAddressToFile \/ CallWriteContractSwapToFile
    \/ CallWriteKeysToFile \/ CallWriteSharedSwapKeyPairToFile
    \/ SendKeysMessage \/ FileWrite \/ Crash

SpecFile == Init /\ [][NextFile]_vars

(***************************************************************************)
(* Properties of the escrow contract.                                      *)
(***************************************************************************)
\* the swap id was returned by a successful new_swap
Created(id) == id < nextID

\* the Claimed and Refunded events emitted for id, with their multiplicity
CompletionEvents(id) ==
    LET S == {e \in BagToSet(logs) : e.swapID = id /\ e.event \in {"Claimed", "Refunded"}}
    IN [e \in S |-> logs[e]]

ClaimedCount(id) ==
    LET S == {e \in BagToSet(logs) : e.swapID = id /\ e.event = "Claimed"}
    IN BagCardinality([e \in S |-> logs[e]])

RefundedCount(id) ==
    LET S == {e \in BagToSet(logs) : e.swapID = id /\ e.event = "Refunded"}
    IN BagCardinality([e \in S |-> logs[e]])

\* the secrets the contract accepts for the swap's claim and refund commitments
ClaimSecrets(swap) == {s \in Secrets : mulVerify(s, swap.pubKeyClaim)}
RefundSecrets(swap) == {s \in Secrets : mulVerify(s, swap.pubKeyRefund)}

\* the swap record with isReady set to r
WithReady(swap, r) == [swap EXCEPT !.isReady = r]

\* C1: for every swapID, at most one Claimed-or-Refunded event is ever emitted:
\* claim and refund never both succeed, and neither succeeds twice.
C1_AtMostOneCompletion ==
    \A id \in SwapIDs : BagCardinality(CompletionEvents(id)) <= 1

\* a swap of value 0 was claimed: a second payout would not fail for lack of ether
C1_Witness ==
    \E id \in SwapIDs :
        /\ swaps[id].completed
        /\ swaps[id].value = 0
        /\ ClaimedCount(id) = 1

\* C2: for a created, not completed swap there is no timestamp and no value of
\* isReady at which a claim and a refund would both be accepted.
C2_NeverBothAccepted ==
    \A id \in SwapIDs :
        (Created(id) /\ ~swaps[id].completed) =>
            \A timestamp \in 0..UintMax, r \in BOOLEAN :
                LET swap == WithReady(swaps[id], r) IN
                ~ /\ \E c \in Addresses, s \in Secrets : claimRevert(swap, c, s, timestamp) = Ok
                  /\ \E c \in Addresses, s \in Secrets : refundRevert(swap, c, s, timestamp) = Ok

\* a Ready, not completed swap whose claim would be accepted now
C2_Witness ==
    \E id \in SwapIDs :
        /\ Created(id) /\ ~swaps[id].completed /\ swaps[id].isReady
        /\ \E s \in Secrets : claimRevert(swaps[id], swaps[id].claimer, s, now) = Ok

\* C3: for a created, not completed swap, at every timestamp (exactly timeout_0
\* and timeout_1 included) and for every accepted timeout duration, the claimer's
\* claim or the owner's refund is accepted.
C3_NeverStuck ==
    \A id \in SwapIDs :
        (Created(id) /\ ~swaps[id].completed) =>
            \A timestamp \in 0..UintMax, r \in BOOLEAN :
                LET swap == WithReady(swaps[id], r) IN
                \/ \E s \in Secrets : claimRevert(swap, swap.claimer, s, timestamp) = Ok
                \/ \E s \in Secrets : refundRevert(swap, swap.owner, s, timestamp) = Ok

\* a Ready swap with a non-empty claim window, not completed at exactly timeout_1
C3_Witness ==
    \E id \in SwapIDs :
        /\ Created(id) /\ ~swaps[id].completed /\ swaps[id].isReady
        /\ swaps[id].timeout_0 < swaps[id].timeout_1
        /\ now = swaps[id].timeout_1

(***************************************************************************)
(* Properties of a whole swap.                                             *)
(***************************************************************************)
\* exit has returned and cleared bob's swap state
BobDone == bob.pc = "idle" /\ bob.swapState = "nil"

\* alice aborted before deploying, or her ClaimOrRefund returned a result
AliceDone ==
    /\ alice.pc = "idle"
    /\ \/ alice.stage = "aborted"
       \/ /\ alice.stage \in {"deployed", "ready"}
          /\ alice.result.err = "nil"
          /\ alice.result.Claimed \/ alice.result.Refunded

Terminal == BobDone /\ AliceDone

\* who holds the ether of the swap
AliceHoldsETH == balance["alice"] = InitialBalance
BobHoldsETH == balance["bob"] > InitialBalance

\* who can spend the XMR: bob while it is in his own wallet; whoever can form the
\* shared spend key from the own secret and a secret on chain once it is locked
AliceCanSpendXMR ==
    /\ xmr.locked
    /\ \E l \in FilterLogs("Claimed") :
        /\ GetSecretFromLog(l, "Claimed") # NoSecret
        /\ SumPrivateSpendKeys(secretA, GetSecretFromLog(l, "Claimed")) = SharedSpendKey

BobCanSpendXMR ==
    \/ ~xmr.locked
    \/ \E l \in FilterLogs("Refunded") :
        /\ GetSecretFromLog(l, "Refunded") # NoSecret
        /\ SumPrivateSpendKeys(GetSecretFromLog(l, "Refunded"), secretB) = SharedSpendKey

Swapped == BobHoldsETH /\ ~AliceHoldsETH /\ AliceCanSpendXMR /\ ~BobCanSpendXMR

EachKeepsOwn == AliceHoldsETH /\ ~BobHoldsETH /\ BobCanSpendXMR /\ ~AliceCanSpendXMR

C5_SecretsMatch ==
    /\ \A e \in BagToSet(logs) :
        /\ e.event = "Claimed" => mulVerify(e.s, swaps[e.swapID].pubKeyClaim)
        /\ e.event = "Refunded" => mulVerify(e.s, swaps[e.swapID].pubKeyRefund)
    /\ \A id \in SwapIDs, c \in Addresses, s \in Secrets :
        /\ ~mulVerify(s, swaps[id].pubKeyClaim) => claimRevert(swaps[id], c, s, now) # Ok
        /\ ~mulVerify(s, swaps[id].pubKeyRefund) => refundRevert(swaps[id], c, s, now) # Ok
    /\ \A id \in SwapIDs :
        swaps[id].completed =>
            \E e \in BagToSet(logs) :
                /\ e.swapID = id
                /\ \/ e.event = "Claimed" /\ mulVerify(e.s, swaps[id].pubKeyClaim)
                   \/ e.event = "Refunded" /\ mulVerify(e.s, swaps[id].pubKeyRefund)

\* a swap was claimed and the log holds its Claimed event
C5_Witness ==
    \E id \in SwapIDs, s \in Secrets :
        swaps[id].completed /\ CopiesIn(Claimed(id, s), logs) = 1

C7_Pre(id) ==
    Created(id) /\ now < swaps[id].timeout_0 /\ ~swaps[id].isReady /\ ~swaps[id].completed

C7_BeforeT0 ==
    /\ \A id \in SwapIDs : C7_Pre(id) =>
        /\ \A c \in Addresses, s \in Secrets : claimRevert(swaps[id], c, s, now) # Ok
        /\ \A s \in RefundSecrets(swaps[id]) :
            refundRevert(swaps[id], swaps[id].owner, s, now) = Ok
        /\ \A c \in Addresses \ {swaps[id].owner}, s \in Secrets :
            refundRevert(swaps[id], c, s, now) # Ok
    /\ \A id \in SwapIDs : RefundedCount(id) > 0 => swaps[id].completed

\* a swap refunded before timeout_0 without having been Ready
C7_Witness ==
    \E id \in SwapIDs :
        /\ RefundedCount(id) = 1 /\ swaps[id].completed
        /\ ~swaps[id].isReady /\ now < swaps[id].timeout_0

\* C8: while timeout_0 <= now < timeout_1 and the swap is not completed, Ready or
\* not, claim by the claimer with the matching secret is accepted, claim by anyone
\* else is rejected, and refund is rejected for every caller and secret.
C8_Pre(id) ==
    /\ Created(id) /\ ~swaps[id].completed
    /\ swaps[id].timeout_0 <= now /\ now < swaps[id].timeout_1

C8_BetweenT0AndT1 ==
    \A id \in SwapIDs : C8_Pre(id) =>
        /\ \A s \in ClaimSecrets(swaps[id]) :
            claimRevert(swaps[id], swaps[id].claimer, s, now) = Ok
        /\ \A c \in Addresses \ {swaps[id].claimer}, s \in Secrets :
            claimRevert(swaps[id], c, s, now) # Ok
        /\ \A c \in Addresses, s \in Secrets : refundRevert(swaps[id], c, s, now) # Ok

\* a swap claimed before timeout_1 that was never Ready: it was claimed in [t0, t1)
C8_Witness ==
    \E id \in SwapIDs :
        /\ ClaimedCount(id) = 1 /\ swaps[id].completed
        /\ ~swaps[id].isReady /\ now < swaps[id].timeout_1

\* C9: when now >= timeout_1 (now = timeout_1 included) and the swap is not
\* completed, claim is rejected for every caller and secret, and refund by the
\* owner with the matching secret is accepted whatever isReady is.
C9_Pre(id) == Created(id) /\ ~swaps[id].completed /\ now >= swaps[id].timeout_1

C9_AfterT1 ==
    \A id \in SwapIDs : C9_Pre(id) =>
        /\ \A c \in Addresses, s \in Secrets : claimRevert(swaps[id], c, s, now) # Ok
        /\ \A r \in BOOLEAN, s \in RefundSecrets(swaps[id]) :
            refundRevert(WithReady(swaps[id], r), swaps[id].owner, s, now) = Ok

\* a Ready swap that was refunded: the refund was accepted at or after timeout_1
C9_Witness ==
    \E id \in SwapIDs :
        RefundedCount(id) = 1 /\ swaps[id].completed /\ swaps[id].isReady

\* C10: once set_ready has succeeded, at every time from now until timeout_1 the
\* claimer's claim with the matching secret is accepted (also before timeout_0)
\* and refund is rejected for every caller and secret.
C10_Pre(id) ==
    /\ Created(id) /\ ~swaps[id].completed /\ swaps[id].isReady
    /\ CopiesIn(Ready(id), logs) = 1

C10_ReadyOpensClaim ==
    \A id \in SwapIDs : C10_Pre(id) =>
        \A timestamp \in now..(swaps[id].timeout_1 - 1) :
            /\ \A s \in ClaimSecrets(swaps[id]) :
                claimRevert(swaps[id], swaps[id].claimer, s, timestamp) = Ok
            /\ \A c \in Addresses, s \in Secrets :
                refundRevert(swaps[id], c, s, timestamp) # Ok

\* a swap set Ready and claimed while now is still before timeout_0
C10_Witness ==
    \E id \in SwapIDs :
        /\ swaps[id].isReady /\ ClaimedCount(id) = 1 /\ swaps[id].completed
        /\ now < swaps[id].timeout_0

\* C11: set_ready is accepted only from the owner of a swap that is neither
\* completed nor Ready; the step that sets isReady changes nothing else of the
\* contract but the Ready event; once isReady is set every set_ready reverts and
\* isReady stays set.
C11_SetReadyOnce ==
    [][\A id \in SwapIDs :
        /\ \A sender \in Addresses :
            set_readyRevert(swaps[id], sender) = Ok =>
                /\ sender = swaps[id].owner
                /\ ~swaps[id].completed /\ ~swaps[id].isReady
        /\ swaps[id].isReady =>
            /\ \A sender \in Addresses : set_readyRevert(swaps[id], sender) # Ok
            /\ swaps'[id].isReady
        /\ (Created(id) /\ ~swaps[id].isReady /\ swaps'[id].isReady) =>
            /\ ~swaps[id].completed
            /\ swaps' = [swaps EXCEPT ![id].isReady = TRUE]
            /\ logs' = emit(Ready(id))
            /\ UNCHANGED <<now, nextID, balance>>
        /\ CopiesIn(Ready(id), logs) = (IF swaps[id].isReady THEN 1 ELSE 0)]_vars

\* a swap set Ready before timeout_0 that is still Ready and open after timeout_1
C11_Witness ==
    \E id \in SwapIDs :
        /\ swaps[id].isReady /\ ~swaps[id].completed
        /\ swaps[id].timeout_0 < swaps[id].timeout_1
        /\ now > swaps[id].timeout_1

\* C12: every swap new_swap creates, for every accepted _timeoutDuration (0
\* included), is stored with timeout_1 > timeout_0 > block.timestamp of its creation.
C12_TimeoutsOrdered ==
    [][\A id \in SwapIDs :
        (~Created(id) /\ id < nextID') =>
            /\ swaps'[id].timeout_1 > swaps'[id].timeout_0
            /\ swaps'[id].timeout_0 > now]_vars

\* the New events logged for id
NewCount(id) ==
    LET S == {e \in BagToSet(logs) : e.swapID = id /\ e.event = "New"}
    IN BagCardinality([e \in S |-> logs[e]])

\* C13: new_swap returns ids from a strictly increasing counter: the new id was
\* never used, its New event is the only one for it, and the records of the swaps
\* created earlier are unchanged; a step of set_ready, claim or refund changes
\* the record of at most one swap.
C13_SwapsIndependent ==
    [][/\ nextID' >= nextID
       /\ nextID' # nextID =>
            /\ nextID' = nextID + 1
            /\ NewCount(nextID) = 0
            /\ \A id \in SwapIDs : id # nextID => swaps'[id] = swaps[id]
       /\ \A id \in SwapIDs : NewCount(id) = (IF Created(id) THEN 1 ELSE 0)
       /\ \A id, other \in SwapIDs :
            (id # other /\ swaps'[id] # swaps[id]) => swaps'[other] = swaps[other]]_vars

\* two swaps live in the contract: the first one was claimed while the second,
\* created later, is still open
C13_Witness ==
    /\ nextID >= 2
    /\ swaps[0].completed /\ ClaimedCount(0) = 1
    /\ ~swaps[1].completed /\ swaps[1].value > 0

\* a step that enters ClaimOrRefund: alice was idle with a deployed swap, and the
\* step is not her set_ready
ClaimOrRefundEntered ==
    /\ alice.pc = "idle" /\ alice.stage \in {"deployed", "ready"}
    /\ alice'.stage = alice.stage
    /\ alice' # alice

\* C14: a ClaimOrRefund entered while a Claimed log of its swap is on chain sends
\* no transaction and, unless the wallet call fails, returns Claimed = true with
\* the wallet of s_A plus the log's secret in DLEQ byte order, which is the shared
\* spend key; only when it is entered with no such log does it go on to tryRefund,
\* and Refunded = true is returned only by an accepted refund; no result has
\* both flags set.
C14_ClaimOrRefund ==
    [][/\ ClaimOrRefundEntered =>
            IF ClaimedCount(alice.contractSwapID) > 0
            THEN /\ alice'.pc = "idle"
                 /\ UNCHANGED cvars
                 /\ ~alice'.result.Refunded
                 /\ alice'.result.Claimed =>
                        /\ alice'.result.err = "nil"
                        /\ [owner |-> "alice", key |-> SharedSpendKey] \in xmr'.wallets
                 /\ \A w \in xmr'.wallets : w.owner = "alice" => w.key = SharedSpendKey
            ELSE /\ alice'.pc = "tryRefund"
                 /\ UNCHANGED <<cvars, xmr>>
       /\ (alice'.result.Refunded /\ alice'.result # alice.result) =>
            /\ alice.pc = "refund"
            /\ RefundedCount(alice.contractSwapID) = 0
            /\ RefundedCount(alice.contractSwapID)' = 1
       /\ ~(alice.result.Claimed /\ alice.result.Refunded)]_vars

\* ClaimOrRefund found bob's Claimed log and returned Claimed = true while bob's
\* exit has not returned yet
C14_Witness ==
    /\ alice.result.Claimed /\ alice.result.err = "nil"
    /\ ClaimedCount(alice.contractSwapID) = 1
    /\ bob.swapState = "set"

\* C15: when exit, entered with NotifyReady expected, scans the logs while a
\* Refunded log of its swap is on chain, it returns at once with the wallet of the
\* shared spend key created, status CompletedRefund and no error, and no claim
\* transaction is sent.
C15_ExitReclaimsOnRefund ==
    [][(bob.pc = "tryReclaimMonero" /\ bob'.pc # "tryReclaimMonero"
            /\ RefundedCount(bob.contractSwapID) > 0) =>
        /\ bob'.pc = "idle" /\ bob'.swapState = "nil"
        /\ bob'.status = "CompletedRefund" /\ bob'.err = "nil"
        /\ [owner |-> "bob", key |-> SharedSpendKey] \in xmr'.wallets
        /\ UNCHANGED cvars]_vars

\* ClaimOrRefund has returned Claimed = true or Refunded = true
RecoverySucceeded(result) == result.err = "nil" /\ (result.Claimed \/ result.Refunded)

\* C16: once a ClaimOrRefund has succeeded, every later invocation returns the
\* same result again without an error (a failing wallet call aside), and no step
\* of alice moves ether.
C16_ClaimOrRefundIdempotent ==
    [][(RecoverySucceeded(alice.result) /\ alice' # alice) =>
        /\ balance' = balance
        /\ \/ alice'.result = alice.result
           \/ alice'.result.err = "failed to create wallet"]_vars

\* a step that enters exit: it returns at once (the deferred function clears
\* bob.swapState) or goes on to tryReclaimMonero
ExitEntered ==
    /\ bob.pc = "idle"
    /\ \/ bob'.pc = "tryReclaimMonero"
       \/ bob.swapState = "set" /\ bob'.swapState = "nil"

\* C17: exit entered while SendKeysMessage or NotifyETHLocked is expected returns
\* at once with status CompletedAbort and no error; it sends no transaction, scans
\* no log and touches no wallet.
C17_CleanAbort ==
    [][(ExitEntered /\ bob.nextExpectedMessage \in {"SendKeysMessage", "NotifyETHLocked"}) =>
        /\ bob'.pc = "idle" /\ bob'.swapState = "nil"
        /\ bob'.status = "CompletedAbort" /\ bob'.err = "nil"
        /\ bob'.nextExpectedMessage = "nil"
        /\ UNCHANGED <<cvars, xmr, alice>>]_vars

\* exit returned CompletedAbort after alice had deployed the swap: NotifyETHLocked
\* was expected
C17_Witness ==
    /\ BobDone /\ bob.status = "CompletedAbort" /\ bob.err = "nil"
    /\ alice.stage = "deployed" /\ Created(alice.contractSwapID)

\* C18: exit entered while NotifyETHLocked is expected takes the reclaim path (the
\* scan for the Refunded log), never the plain CompletedAbort.
C18_ReclaimAtETHLocked ==
    [][(ExitEntered /\ bob.nextExpectedMessage = "NotifyETHLocked") =>
        /\ bob'.pc = "tryReclaimMonero"
        /\ bob'.status # "CompletedAbort"]_vars

\* C19: once exit has returned, a further Exit call is a no-op that returns the
\* first call's outcome: nothing of bob's swap state changes any more (status,
\* returned error, the stage of a new exit path) and the deferred cleanup
\* (CompleteOngoingSwap, putOffer) does not run a second time.
C19_ExitNonReentrant ==
    [][bob.swapState = "nil" => bob' = bob]_vars

\* C20: when the context is cancelled while tryClaim waits for t0, the wait can
\* end at once, whatever the time, and no claim transaction is sent afterwards.
C20_WaitHonoursCancel ==
    /\ [](bob.pc = "waitT0" /\ bob.ctx = "cancelled" => ENABLED BobWaitT0)
    /\ [][(bob.pc = "claimFunds" /\ bob.ctx = "cancelled" /\ bob' # bob) =>
            bob'.err = errContextCanceled /\ UNCHANGED cvars]_vars

\* C21: when tryClaim finds that t1 has passed while the XMR is locked, exit does
\* not return an error: it keeps the swap state and goes back to the scan for
\* alice's Refunded log, to end in CompletedRefund once the log is there.
C21_PastT1WaitsForRefund ==
    [][(bob.pc = "checkT1" /\ bob.untilT1 < 0 /\ xmr.locked /\ bob'.pc # "checkT1") =>
        /\ bob'.pc = "tryReclaimMonero"
        /\ bob'.swapState = "set"
        /\ bob'.err = "nil"]_vars

(***************************************************************************)
(* Properties of the checkpoint file.                                      *)
(***************************************************************************)
\* the file holds a whole document whose PrivateKeyInfo is the session's key pair
KeysPersisted ==
    LET u == Unmarshal(infofile.bytes) IN
    /\ infofile.exists /\ u.err = Nil
    /\ session.privkeys # NilKeys
    /\ u.contents.PrivateKeyInfo = Info(session.privkeys)

\* C22: whenever SendKeysMessage (generateAndSetKeys) returns without an error,
\* the checkpoint file holds the session's private key pair, also when an earlier
\* call of the session failed while writing the file.
C22_KeysPersistedBeforeUse ==
    [][(session'.ret # session.ret
            /\ session'.ret = [op |-> "SendKeysMessage", err |-> Nil]) =>
        KeysPersisted']_vars

\* C23: at every instant, also between the steps of a Write*ToFile call where the
\* process may die, the file on disk holds a whole InfoFileContents, the one of
\* the last write that returned nil, so that setupFile can load it.
C23_FileAlwaysComplete ==
    infofile.exists =>
        /\ Unmarshal(infofile.bytes).err = Nil
        /\ Unmarshal(infofile.bytes).contents = written

\* C24: when a Write*ToFile call returns nil, loading the file gives the
\* writer's value for each field the writer assigns and, for every other field,
\* the value of the last earlier write to it (the zero value if there was none).
C24_WritersPreserveFields ==
    [][(session.pc = "write" /\ session'.pc = "idle"
            /\ session'.ret = [op |-> session.ret.op, err |-> Nil]) =>
        LET u == Unmarshal(infofile'.bytes) IN
        /\ u.err = Nil
        /\ \A f \in DOMAIN ZeroContents :
            u.contents[f] = IF f \in DOMAIN session.set THEN session.set[f] ELSE written[f]
        /\ u.contents = written']_vars

\* every writer has written the file, the address twice, and the file holds the
\* four last values
C24_Witness ==
    /\ session.pc = "idle" /\ session.ret.err = Nil
    /\ Unmarshal(infofile.bytes).err = Nil
    /\ Unmarshal(infofile.bytes).contents = written
    /\ written.ContractAddress = "0xF2" /\ session.contents.ContractAddress = "0xF2"
    /\ session.ret.op = "WriteContractAddressToFile"
    /\ written.ContractSwapID = 2
    /\ written.PrivateKeyInfo = Info(GeneratedKeys)
    /\ written.SharedSwapPrivateKey # NilInfo

(***************************************************************************)
(* Further properties of a whole swap and of the contract.                 *)
(***************************************************************************)
\* C25: whenever exit has detached bob's swap state from the instance
\* (bob.swapState = nil, context cancelled, ongoing swap marked complete), the
\* status of the swap is CompletedSuccess, CompletedRefund or CompletedAbort.
C25_DestroyedOnlyWhenTerminal ==
    (bob.swapState = "nil" /\ bob.ctx = "cancelled" /\ bob.cleanups # "none") =>
        bob.status \in {"CompletedSuccess", "CompletedRefund", "CompletedAbort"}

\* the byte strings of up to three bytes
ByteStrings ==
    {<<>>} \cup {<<a>> : a \in 0..4} \cup {<<a, b>> : a, b \in 0..4}
        \cup {<<a, b, c>> : a, b, c \in 0..4}

\* C26: Reverse is its own inverse on every byte string; getSecret is the
\* byte-reversal of bob's DLEQ secret; GetSecretFromLog gives back, for every
\* non-zero scalar logged in reversed order, the original byte string, and for
\* every Claimed and Refunded log of the swap the DLEQ secret of the role that
\* emitted it (bob's for Claimed, alice's for Refunded).
C26_ByteOrderRoundTrip ==
    /\ \A x \in ByteStrings : Reverse(Reverse(x)) = x /\ Len(Reverse(x)) = Len(x)
    /\ getSecret = Reverse(secretB) /\ Reverse(getSecret) = secretB
    /\ \A x \in ByteStrings :
        (Len(x) = Len(ZeroSecret) /\ Reverse(x) # ZeroSecret) =>
            /\ GetSecretFromLog(Claimed(0, Reverse(x)), "Claimed") = x
            /\ GetSecretFromLog(Refunded(0, Reverse(x)), "Refunded") = x
    /\ \A l \in FilterLogs("Claimed") : GetSecretFromLog(l, "Claimed") = secretB
    /\ \A l \in FilterLogs("Refunded") : GetSecretFromLog(l, "Refunded") = secretA

\* bob's claim with getSecret was accepted, and the log gives back his DLEQ secret
C26_Witness ==
    /\ bob.status = "CompletedSuccess"
    /\ \E l \in FilterLogs("Claimed") :
        /\ l.s = getSecret /\ l.s # secretB
        /\ GetSecretFromLog(l, "Claimed") = secretB

\* the commitments a New log may carry, and the receipts checkContract may be given
CommitKeys == {PubKeyHash(Reverse(secretA)), PubKeyHash(Reverse(secretB)), ZeroHash}

Receipts ==
    {<<>>} \cup {<<New(i, ck, rk)>> : i \in SwapIDs, ck \in CommitKeys, rk \in CommitKeys}
           \cup {<<Ready(i)>> : i \in SwapIDs}

\* C27: checkContract returns no error only if the receipt has a log, the swapID
\* of its New log is the id alice announced, the claim key is the hash of bob's
\* public key, the refund key the hash of alice's, and the swap holds at least
\* the expected value; bob goes on to expect NotifyReady only with such a swap.
C27_CheckContract ==
    /\ \A receipt \in Receipts, id \in SwapIDs :
        checkContract(receipt, id) = "nil" =>
            /\ Len(receipt) > 0
            /\ receipt[1].swapID = id
            /\ receipt[1].claimKey = PubKeyHash(Reverse(secretB))
            /\ receipt[1].refundKey = PubKeyHash(Reverse(secretA))
            /\ swaps[id].value >= ExpectedValue
    /\ bob.nextExpectedMessage = "NotifyReady" =>
        /\ CopiesIn(New(bob.contractSwapID, PubKeyHash(Reverse(secretB)),
                        PubKeyHash(Reverse(secretA))), logs) = 1
        /\ swaps[bob.contractSwapID].value >= ExpectedValue

\* bob checked the deployed swap, found it as expected and locked his XMR, while
\* a receipt with the wrong refund key would be refused
C27_Witness ==
    /\ bob.nextExpectedMessage = "NotifyReady" /\ bob.ctx = "live" /\ xmr.locked
    /\ checkContract(WaitForReceipt(bob.contractSwapID), bob.contractSwapID) = "nil"
    /\ checkContract(<<New(bob.contractSwapID, PubKeyHash(Reverse(secretB)), ZeroHash)>>,
                     bob.contractSwapID) = "contract refund key is not expected"

\* C28: a swap is completed if and only if exactly one Claimed or Refunded event
\* was emitted for it (and none if it is not completed); so when the owner's
\* refund reverts with "swap is already completed" and the log holds no Refunded
\* event of the swap, it holds a Claimed event with the secret of the claim
\* commitment.
C28_CompletedIffOneEvent ==
    \A id \in SwapIDs :
        /\ swaps[id].completed <=> BagCardinality(CompletionEvents(id)) = 1
        /\ ~swaps[id].completed => BagCardinality(CompletionEvents(id)) = 0
        /\ \A s \in Secrets :
            (refundRevert(swaps[id], swaps[id].owner, s, now) = revertSwapCompleted
                    /\ RefundedCount(id) = 0) =>
                \E sb \in ClaimSecrets(swaps[id]) : CopiesIn(Claimed(id, sb), logs) = 1

\* after timeout_1 the owner's refund of a claimed swap reverts with "swap is
\* already completed", and the Claimed event is in the log
C28_Witness ==
    \E id \in SwapIDs :
        /\ now >= swaps[id].timeout_1 /\ swaps[id].value > 0
        /\ refundRevert(swaps[id], swaps[id].owner, Reverse(secretA), now) = revertSwapCompleted
        /\ RefundedCount(id) = 0 /\ ClaimedCount(id) = 1

\* C29: on a completed swap set_ready, claim and refund revert with "swap is
\* already completed" for every caller, every timestamp and every secret, and no
\* step changes the swap's record, its events or, by a payout, the contract's ether.
C29_CompletedReverts ==
    /\ [](\A id \in SwapIDs : swaps[id].completed =>
            \A sender \in Addresses, timestamp \in 0..UintMax, s \in Secrets \cup {ZeroSecret} :
                /\ set_readyRevert(swaps[id], sender) = revertSwapCompleted
                /\ claimRevert(swaps[id], sender, s, timestamp) = revertSwapCompleted
                /\ refundRevert(swaps[id], sender, s, timestamp) = revertSwapCompleted)
    /\ [][\A id \in SwapIDs : swaps[id].completed =>
            /\ swaps'[id] = swaps[id]
            /\ CompletionEvents(id)' = CompletionEvents(id)
            /\ CopiesIn(Ready(id), logs') = CopiesIn(Ready(id), logs)]_vars

\* a swap refunded before timeout_0, at a time inside its claim window: a claim
\* would be in time, and reverts because the swap is completed
C29_Witness ==
    \E id \in SwapIDs :
        /\ swaps[id].completed /\ RefundedCount(id) = 1 /\ ~swaps[id].isReady
        /\ swaps[id].timeout_0 <= now /\ now < swaps[id].timeout_1
        /\ claimRevert(swaps[id], swaps[id].claimer, Reverse(secretB), now) = revertSwapCompleted

\* C30: when bob's claim transaction, sent by exit after a scan that found no
\* Refunded log, reverts with "swap is already completed" because alice's refund
\* was mined in between, exit ends with the XMR reclaimed: the wallet of the
\* shared spend key is created, the status is CompletedRefund and no error is
\* returned.
C30_ExitPrefersObservedState ==
    [][(bob.pc = "claimFunds" /\ bob'.pc # "claimFunds" /\ bob.ctx = "live"
            /\ claimFunds = revertSwapCompleted
            /\ RefundedCount(bob.contractSwapID) = 1
            /\ bob.t0 < bob.t1) =>
        /\ bob'.status = "CompletedRefund" /\ bob'.err = "nil"
        /\ [owner |-> "bob", key |-> SharedSpendKey] \in xmr'.wallets]_vars

\* C31: tryClaim, for a swap with t0 < t1, waits for t0 when it is entered before
\* t0 with the swap not Ready, and at the moment it decides to submit the claim
\* it returns errPastClaimTime without submitting whenever now >= t1.
C31_ClaimOnlyInWindow ==
    [][/\ (bob.pc = "tryClaim" /\ bob'.pc # "tryClaim" /\ bob.t0 < bob.t1
                /\ now < bob.t0 /\ ~swaps[bob.contractSwapID].isReady) =>
            bob'.pc = "waitT0"
       /\ (bob.pc = "checkT1" /\ bob'.pc # "checkT1" /\ bob.t0 < bob.t1
                /\ now >= bob.t1) =>
            /\ bob'.pc = "idle"
            /\ bob'.err = errPastClaimTime]_vars

\* C32: filterForClaim and filterForRefund return a secret only when a Claimed
\* (Refunded) log carries the session's contractSwapID, the secret being the one of
\* such a log; with no such log, whatever other swaps have logged, the result is
\* the no-logs-found error and no secret.
C32_FilterMatchesOwnSwap ==
    /\ IF ClaimedCount(alice.contractSwapID) = 0
       THEN filterForClaim = [sk |-> NoSecret, err |-> errNoClaimLogsFound]
       ELSE \E l \in FilterLogs("Claimed") :
                /\ l.swapID = alice.contractSwapID
                /\ filterForClaim = [sk |-> Reverse(l.s), err |-> "nil"]
    /\ bob.ctx # "cancelled" =>
        IF RefundedCount(bob.contractSwapID) = 0
        THEN filterForRefund = [sk |-> NoSecret, err |-> errNoRefundLogsFound]
        ELSE \E l \in FilterLogs("Refunded") :
                /\ l.swapID = bob.contractSwapID
                /\ filterForRefund = [sk |-> Reverse(l.s), err |-> "nil"]

\* another swap has been claimed and another refunded while the sessions' own swaps
\* have no such log, and, in another state, the own swap's log is found among others
C32_Witness ==
    /\ bob.ctx # "cancelled"
    /\ \E other \in SwapIDs \ {alice.contractSwapID} : ClaimedCount(other) = 1
    /\ ClaimedCount(alice.contractSwapID) = 0
    /\ filterForClaim.err = errNoClaimLogsFound
    /\ \E other \in SwapIDs \ {bob.contractSwapID} : RefundedCount(other) = 1
    /\ RefundedCount(bob.contractSwapID) = 0
    /\ filterForRefund.err = errNoRefundLogsFound

\* the sum of swap.value over a set of swap ids
RECURSIVE SumValue(_)
SumValue(ids) ==
    IF ids = {} THEN 0
    ELSE LET id == CHOOSE i \in ids : TRUE
         IN swaps[id].value + SumValue(ids \ {id})

\* the ether the contract owes: the value of the swaps whose completed flag is unset
Escrowed == SumValue({id \in SwapIDs : ~swaps[id].completed})

\* C33: the contract's balance is always the sum of value over the swaps that are
\* not completed; the step that completes a swap emits exactly one of Claimed and
\* Refunded for it and moves exactly the swap's value from the contract to the
\* claimer (Claimed) or to the owner (Refunded); every other step pays no ether
\* to anyone, so nothing is paid for a swap while it is open or after completion.
C33_ValueConserving ==
    /\ [](balance[Contract] = Escrowed)
    /\ [][/\ \A id \in SwapIDs :
                (swaps'[id].completed /\ ~swaps[id].completed) =>
                    /\ ClaimedCount(id)' + RefundedCount(id)' = 1
                    /\ LET to == IF ClaimedCount(id)' = 1 THEN swaps[id].claimer
                                                         ELSE swaps[id].owner
                       IN balance' = [balance EXCEPT ![Contract] = @ - swaps[id].value,
                                                     ![to] = @ + swaps[id].value]
          /\ (\A id \in SwapIDs : swaps'[id].completed = swaps[id].completed) =>
                \A a \in Addresses : balance'[a] <= balance[a]]_vars

\* one swap was claimed and its value is with the claimer, another was refunded to
\* the owner, or is still open with its value in the contract
C33_Witness ==
    \E id, other \in SwapIDs :
        /\ id # other /\ Created(other)
        /\ swaps[id].completed /\ ClaimedCount(id) = 1
        /\ balance[swaps[id].claimer] = InitialBalance + swaps[id].value
        /\ swaps[id].value > 0
        /\ ~swaps[other].completed
        /\ balance[Contract] = swaps[other].value

\* s_b can be read from a Claimed event: alice, who holds s_a, then has both halves
AliceKnowsBoth == \E l \in FilterLogs("Claimed") : GetSecretFromLog(l, "Claimed") = secretB

\* s_a can be read from a Refunded event: bob, who holds s_b, then has both halves
BobKnowsBoth == \E l \in FilterLogs("Refunded") : GetSecretFromLog(l, "Refunded") = secretA

\* C34: a wallet for the locked XMR is built by alice only with the s_b of a Claimed
\* event of her swap and by bob only with the s_a of a Refunded event of his swap;
\* in no state have both a Claimed event revealed s_b and a Refunded event
\* revealed s_a; while the XMR is locked and neither event has fired nobody has
\* a wallet for it.
C34_OneHolderOfBothHalves ==
    /\ \A w \in xmr.wallets :
        /\ w.owner = "alice" =>
            /\ w.key = SharedSpendKey
            /\ \E l \in FilterLogs("Claimed") :
                /\ l.swapID = alice.contractSwapID
                /\ GetSecretFromLog(l, "Claimed") = secretB
        /\ w.owner = "bob" =>
            /\ w.key = SharedSpendKey
            /\ \E l \in FilterLogs("Refunded") :
                /\ l.swapID = bob.contractSwapID
                /\ GetSecretFromLog(l, "Refunded") = secretA
    /\ ~(AliceKnowsBoth /\ BobKnowsBoth)
    /\ (\E w \in xmr.wallets : w.owner = "alice") =>
            ~(\E w \in xmr.wallets : w.owner = "bob")
    /\ (xmr.locked /\ ~AliceKnowsBoth /\ ~BobKnowsBoth) => xmr.wallets = {}

\* the XMR is locked, alice refunded and bob alone built the wallet of the shared key
C34_Witness ==
    /\ xmr.locked
    /\ BobKnowsBoth /\ ~AliceKnowsBoth
    /\ xmr.wallets = {[owner |-> "bob", key |-> SharedSpendKey]}

\* C35: for an id that new_swap has not assigned, set_ready, claim and refund
\* revert for every caller, block timestamp and secret, is_ready is false, and the
\* contract holds the zero Swap and no event for the id.
C35_UnknownSwapReverts ==
    \A id \in SwapIDs :
        ~Created(id) =>
            /\ \A sender \in Addresses :
                /\ set_readyRevert(swaps[id], sender) # Ok
                /\ \A timestamp \in 0..MaxTime, s \in Secrets :
                    /\ claimRevert(swaps[id], sender, s, timestamp) # Ok
                    /\ refundRevert(swaps[id], sender, s, timestamp) # Ok
            /\ is_ready(id) = FALSE
            /\ swaps[id] = EmptySwap
            /\ \A e \in BagToSet(logs) : e.swapID # id

\* one swap is completed while the next id is unused: the calls on the unused id
\* fail their caller checks for the accounts that own and claim the first swap
C35_Witness ==
    \E id \in SwapIDs :
        /\ ~Created(id) /\ id > 0
        /\ swaps[id - 1].completed
        /\ set_readyRevert(swaps[id], swaps[id - 1].owner) =
                "only the swap owner can call set_ready"
        /\ claimRevert(swaps[id], swaps[id - 1].claimer, Reverse(secretB), now) =
                "only claimer can claim!"
        /\ refundRevert(swaps[id], swaps[id - 1].owner, Reverse(secretA), now) =
                "refund must be called by the swap owner"
        /\ ~is_ready(id)

=============================================================================
